---- MODULE Spec2Model ----
(***************************************************************************)
(* Model of the lint-warning auto-fixer scripts:                           *)
(*   src/backend/fix-from-file.py       (script "from_file")               *)
(*   src/backend/fix-all-unused-vars.py (script "all")                     *)
(*   src/backend/fix-unused-vars.py     (script "single")                  *)
(*   src/fix-unused-vars.py             (script "whole")                   *)
(* Text is modelled as a sequence of one-character strings, so that the    *)
(* regular expressions of the scripts act on characters as Python's re     *)
(* module does (leftmost match, greedy quantifiers, backtracking in        *)
(* priority order, re.sub replacing every non-overlapping match).          *)
(* Files hold "\n" line terminators only; the newline translation of the   *)
(* platform and console encoding are outside the model.                    *)
(***************************************************************************)
EXTENDS Integers, Sequences, FiniteSets, TLC

VARIABLES
    script,        \* which script runs: "from_file", "all", "single" or "whole"
    disk,          \* the contents of the source file at TargetPath
    output,        \* the lint output the parser reads
    lineno,        \* the number of lines of output the parser has consumed
    current_file,  \* the parser's current_file (None until a header is seen)
    errors,        \* the parser's list of warnings
    pc,            \* "call" (the rewriter called directly), "parse", "loop", "done";
                   \* of script "whole": "vars", "imports", "params", "write", "returned"
    idx,           \* main's position in errors
    fixed, failed, skipped,   \* main's tallies
    passed,        \* the warnings main has handed to the rewriter, in order
    ncalls,        \* the number of direct calls of the rewriter so far
    last,          \* the latest call of the rewriter: arguments, result, file before
    content,       \* script "whole": the text of the file as fix_unused_vars holds it
    pending,       \* script "whole": the names of the current set not yet visited
    changes,       \* script "whole": the list of changes (the returned one at "returned")
    turn           \* script "whole": the latest turn of a loop: kind, name, content before

vars == <<script, disk, output, lineno, current_file, errors, pc, idx,
          fixed, failed, skipped, passed, ncalls, last,
          content, pending, changes, turn>>

----------------------------------------------------------------------------
(* Characters and character classes of Python's re (ASCII part).           *)

Lower == {"a","b","c","d","e","f","g","h","i","j","k","l","m",
          "n","o","p","q","r","s","t","u","v","w","x","y","z"}
Digit == {"0","1","2","3","4","5","6","7","8","9"}
\* \w
Upper == {"A","B","C","D","E","F","G","H","I","J","K","L","M",
          "N","O","P","Q","R","S","T","U","V","W","X","Y","Z"}
WordCh == Lower \cup Upper \cup Digit \cup {"_"}
\* \s
SpaceCh == {" ", "\t", "\n", "\r"}

----------------------------------------------------------------------------
(* Regular expressions.  A pattern is a sequence of items:                 *)
(*   Lit(s)         the literal characters s (also re.escape(var_name))    *)
(*   Cls(cs,neg,min,many)  a character class [cs] or [^cs], taken min..1   *)
(*                  times, or min..oo times when many (greedy)             *)
(*   WB, BOL, EOL   \b, ^ and $                                            *)
(*   Grp(n,alts,opt) capture group n holding the alternatives alts (each a *)
(*                  pattern); opt for a trailing ?                         *)

Lit(s) == [k |-> "lit", s |-> s]
Cls(cs, neg, min, many) == [k |-> "cls", cs |-> cs, neg |-> neg, min |-> min, many |-> many]
WB == [k |-> "wb"]
BOL == [k |-> "bol"]
EOL == [k |-> "eol"]
Grp(n, alts, opt) == [k |-> "grp", n |-> n, alts |-> alts, opt |-> opt]
GrpEnd(n, from) == [k |-> "end", n |-> n, from |-> from]

\* \s*  \s+  \d+
Ws0 == Cls(SpaceCh, FALSE, 0, TRUE)
Ws1 == Cls(SpaceCh, FALSE, 1, TRUE)
Num1 == Cls(Digit, FALSE, 1, TRUE)

NoMatch == [ok |-> FALSE]
NoCaps == << <<>>, <<>> >>

InCls(c, it) == IF it.neg THEN c \notin it.cs ELSE c \in it.cs

\* number of consecutive characters of s from pos on that are in the class
RECURSIVE ClsRun(_, _, _)
ClsRun(it, s, pos) ==
    IF pos <= Len(s) /\ InCls(s[pos], it) THEN 1 + ClsRun(it, s, pos + 1) ELSE 0

IsWordAt(s, p) == p >= 1 /\ p <= Len(s) /\ s[p] \in WordCh

\* \b between the characters p-1 and p
AtWordBoundary(s, p) == IsWordAt(s, p - 1) # IsWordAt(s, p)

\* $ without re.MULTILINE: the end of the string, or just before a final newline
AtEnd(s, p) == p = Len(s) + 1 \/ (p = Len(s) /\ s[p] = "\n")

RECURSIVE MatchHere(_, _, _, _), TryCount(_, _, _, _, _, _), TryAlts(_, _, _, _, _, _)

\* The match of the items todo at position pos of s that backtracking finds
\* first: [ok, end, caps], caps[n] = <<from, to>> of group n or <<>>.
MatchHere(todo, s, pos, caps) ==
    IF Len(todo) = 0 THEN [ok |-> TRUE, end |-> pos, caps |-> caps]
    ELSE LET it == Head(todo)
             rest == Tail(todo)
         IN CASE it.k = "lit" ->
                   IF pos + Len(it.s) - 1 <= Len(s)
                      /\ SubSeq(s, pos, pos + Len(it.s) - 1) = it.s
                   THEN MatchHere(rest, s, pos + Len(it.s), caps)
                   ELSE NoMatch
              [] it.k = "cls" ->
                   LET run == ClsRun(it, s, pos)
                       most == IF it.many \/ run = 0 THEN run ELSE 1
                   IN TryCount(it.min, most, rest, s, pos, caps)
              [] it.k = "wb" ->
                   IF AtWordBoundary(s, pos) THEN MatchHere(rest, s, pos, caps) ELSE NoMatch
              [] it.k = "bol" ->
                   IF pos = 1 THEN MatchHere(rest, s, pos, caps) ELSE NoMatch
              [] it.k = "eol" ->
                   IF AtEnd(s, pos) THEN MatchHere(rest, s, pos, caps) ELSE NoMatch
              [] it.k = "grp" -> TryAlts(it, 1, rest, s, pos, caps)
              [] it.k = "end" ->
                   MatchHere(rest, s, pos, [caps EXCEPT ![it.n] = <<it.from, pos>>])

\* greedy repetition: the longest count first, down to the least
TryCount(least, n, rest, s, pos, caps) ==
    IF n < least THEN NoMatch
    ELSE LET r == MatchHere(rest, s, pos + n, caps)
         IN IF r.ok THEN r ELSE TryCount(least, n - 1, rest, s, pos, caps)

\* alternatives in order; an optional group is tried before it is skipped
TryAlts(it, a, rest, s, pos, caps) ==
    IF a > Len(it.alts)
    THEN IF it.opt THEN MatchHere(rest, s, pos, caps) ELSE NoMatch
    ELSE LET r == MatchHere(it.alts[a] \o <<GrpEnd(it.n, pos)>> \o rest, s, pos, caps)
         IN IF r.ok THEN r ELSE TryAlts(it, a + 1, rest, s, pos, caps)

\* re.match: the pattern at the start of s
ReMatch(pat, s) == MatchHere(pat, s, 1, NoCaps)

\* re.search from position from: the leftmost match, [ok, start, end, caps]
RECURSIVE SearchFrom(_, _, _)
SearchFrom(pat, s, from) ==
    IF from > Len(s) + 1 THEN NoMatch
    ELSE LET r == MatchHere(pat, s, from, NoCaps)
         IN IF r.ok THEN [ok |-> TRUE, start |-> from, end |-> r.end, caps |-> r.caps]
            ELSE SearchFrom(pat, s, from + 1)

\* A replacement template is a sequence of Lit(s) and Ref(n) (\n); a group that
\* took no part in the match expands to the empty string.
Ref(n) == [k |-> "ref", n |-> n]

RECURSIVE Expand(_, _, _)
Expand(repl, s, caps) ==
    IF Len(repl) = 0 THEN <<>>
    ELSE LET it == Head(repl)
             part == IF it.k = "lit" THEN it.s
                     ELSE IF Len(caps[it.n]) = 0 THEN <<>>
                     ELSE SubSeq(s, caps[it.n][1], caps[it.n][2] - 1)
         IN part \o Expand(Tail(repl), s, caps)

\* re.sub(pattern, replacement, s): every non-overlapping match, left to right
RECURSIVE SubFrom(_, _, _, _)
SubFrom(pat, repl, s, from) ==
    LET m == SearchFrom(pat, s, from)
    IN IF ~m.ok THEN SubSeq(s, from, Len(s))
       ELSE IF m.end = m.start
       THEN SubSeq(s, from, m.start - 1) \o Expand(repl, s, m.caps)
            \o (IF m.start <= Len(s)
                THEN <<s[m.start]>> \o SubFrom(pat, repl, s, m.start + 1)
                ELSE <<>>)
       ELSE SubSeq(s, from, m.start - 1) \o Expand(repl, s, m.caps)
            \o SubFrom(pat, repl, s, m.end)

ReSub(pat, repl, s) == SubFrom(pat, repl, s, 1)

\* needle in s
RECURSIVE ContainsFrom(_, _, _)
ContainsFrom(needle, s, from) ==
    IF from + Len(needle) - 1 > Len(s) THEN FALSE
    ELSE IF SubSeq(s, from, from + Len(needle) - 1) = needle THEN TRUE
    ELSE ContainsFrom(needle, s, from + 1)

Contains(needle, s) == ContainsFrom(needle, s, 1)

StartsWith(s, prefix) ==
    Len(prefix) <= Len(s) /\ SubSeq(s, 1, Len(prefix)) = prefix

----------------------------------------------------------------------------
(* Python helpers used by the scripts.                                     *)

\* text.find('\n', from - 1) + 1: the position of the first newline at or after
\* from, 0 when there is none
FindNewline(text, from) ==
    LET at == {p \in from .. Len(text) : text[p] = "\n"}
    IN IF at = {} THEN 0 ELSE CHOOSE p \in at : \A q \in at : p <= q

\* f.readlines(): the lines of a text, each keeping its "\n"
RECURSIVE ReadLinesFrom(_, _)
ReadLinesFrom(text, from) ==
    LET nl == FindNewline(text, from)
    IN IF from > Len(text) THEN <<>>
       ELSE IF nl = 0 THEN <<SubSeq(text, from, Len(text))>>
       ELSE <<SubSeq(text, from, nl)>> \o ReadLinesFrom(text, nl + 1)

ReadLines(text) == ReadLinesFrom(text, 1)

\* output.split('\n'): the pieces between the newlines, without them
RECURSIVE SplitFrom(_, _)
SplitFrom(text, from) ==
    LET nl == FindNewline(text, from)
    IN IF nl = 0 THEN <<SubSeq(text, from, Len(text))>>
       ELSE <<SubSeq(text, from, nl - 1)>> \o SplitFrom(text, nl + 1)

SplitLines(text) == SplitFrom(text, 1)

\* f.writelines(lines)
RECURSIVE WriteLines(_)
WriteLines(lines) ==
    IF Len(lines) = 0 THEN <<>> ELSE Head(lines) \o WriteLines(Tail(lines))

\* s.strip()
RECURSIVE LStrip(_), RStrip(_)
LStrip(s) == IF Len(s) > 0 /\ Head(s) \in SpaceCh THEN LStrip(Tail(s)) ELSE s
RStrip(s) ==
    IF Len(s) > 0 /\ s[Len(s)] \in SpaceCh THEN RStrip(SubSeq(s, 1, Len(s) - 1)) ELSE s
Strip(s) == RStrip(LStrip(s))

\* int(digits)
DigitVal(c) ==
    CASE c = "0" -> 0 [] c = "1" -> 1 [] c = "2" -> 2 [] c = "3" -> 3 [] c = "4" -> 4
      [] c = "5" -> 5 [] c = "6" -> 6 [] c = "7" -> 7 [] c = "8" -> 8 [] c = "9" -> 9

RECURSIVE ToInt(_)
ToInt(ds) ==
    IF Len(ds) = 0 THEN 0
    ELSE 10 * ToInt(SubSeq(ds, 1, Len(ds) - 1)) + DigitVal(ds[Len(ds)])

\* lines[i] of a Python list (0-based; a negative index counts from the end)
PyItem(lines, i) == IF i >= 0 THEN lines[i + 1] ELSE lines[Len(lines) + i + 1]
PySetItem(lines, i, v) ==
    IF i >= 0 THEN [lines EXCEPT ![i + 1] = v] ELSE [lines EXCEPT ![Len(lines) + i + 1] = v]
\* lines[i] raises IndexError
IndexError(lines, i) == i >= Len(lines) \/ i < 0 - Len(lines)

----------------------------------------------------------------------------
(* The rule tables of fix_unused_var: pairs <<pattern, replacement>>,      *)
(* templated on var_name (v).                                              *)

KwConst == <<"c","o","n","s","t">>
KwLet == <<"l","e","t">>
KwVar == <<"v","a","r">>
KwImport == <<"i","m","p","o","r","t">>
KwFrom == <<"f","r","o","m">>
KwFunction == <<"f","u","n","c","t","i","o","n">>
KwAsync == <<"a","s","y","n","c">>

\* (const|let|var) as group 1
Decl == Grp(1, << <<Lit(KwConst)>>, <<Lit(KwLet)>>, <<Lit(KwVar)>> >>, FALSE)

Ch(c) == Lit(<<c>>)
\* _var_name
Und(v) == <<"_">> \o v

\* fix-from-file.py, "Patterns - order matters!"
PatternsFromFile(v) == <<
    \* \b(const|let|var)\s+V\s*=              ->  \1 _V =
    << <<WB, Decl, Ws1, Lit(v), Ws0, Ch("=")>>,
       <<Ref(1), Lit(<<" ">> \o Und(v) \o <<" ", "=">>)>> >>,
    \* \b(const|let|var)\s+V\s*;              ->  \1 _V;
    << <<WB, Decl, Ws1, Lit(v), Ws0, Ch(";")>>,
       <<Ref(1), Lit(<<" ">> \o Und(v) \o <<";">>)>> >>,
    \* \bimport\s+V\s+from                    ->  import _V from
    << <<WB, Lit(KwImport), Ws1, Lit(v), Ws1, Lit(KwFrom)>>,
       <<Lit(KwImport \o <<" ">> \o Und(v) \o <<" ">> \o KwFrom)>> >>,
    \* \bimport\s+{\s*V\s*}                   ->  import { _V }
    << <<WB, Lit(KwImport), Ws1, Ch("{"), Ws0, Lit(v), Ws0, Ch("}")>>,
       <<Lit(KwImport \o <<" ", "{", " ">> \o Und(v) \o <<" ", "}">>)>> >>,
    \* {\s*V\s*,                              ->  { _V,
    << <<Ch("{"), Ws0, Lit(v), Ws0, Ch(",")>>,
       <<Lit(<<"{", " ">> \o Und(v) \o <<",">>)>> >>,
    \* ,\s*V\s*}                              ->  , _V }
    << <<Ch(","), Ws0, Lit(v), Ws0, Ch("}")>>,
       <<Lit(<<",", " ">> \o Und(v) \o <<" ", "}">>)>> >>,
    \* ,\s*V\s*,                              ->  , _V,
    << <<Ch(","), Ws0, Lit(v), Ws0, Ch(",")>>,
       <<Lit(<<",", " ">> \o Und(v) \o <<",">>)>> >>,
    \* ^\s*V:\s*                              ->   _V:
    << <<BOL, Ws0, Lit(v), Ch(":"), Ws0>>,
       <<Lit(<<" ">> \o Und(v) \o <<":", " ">>)>> >>,
    \* \b(async\s+)?function\s+V\s*\(         ->  \1function _V(
    << <<WB, Grp(1, << <<Lit(KwAsync), Ws1>> >>, TRUE), Lit(KwFunction), Ws1, Lit(v),
         Ws0, Ch("(")>>,
       <<Ref(1), Lit(KwFunction \o <<" ">> \o Und(v) \o <<"(">>)>> >>,
    \* \b(const|let|var)\s*{\s*V\s*}          ->  \1 { _V }
    << <<WB, Decl, Ws0, Ch("{"), Ws0, Lit(v), Ws0, Ch("}")>>,
       <<Ref(1), Lit(<<" ", "{", " ">> \o Und(v) \o <<" ", "}">>)>> >>,
    \* ^\s*V,\s*$                             ->   _V,
    << <<BOL, Ws0, Lit(v), Ch(","), Ws0, EOL>>,
       <<Lit(<<" ">> \o Und(v) \o <<",">>)>> >>,
    \* \(([^,)]*),\s*V\s*\)                   ->  (\1, _V)
    << <<Ch("("), Grp(1, << <<Cls({",", ")"}, TRUE, 0, TRUE)>> >>, FALSE), Ch(","), Ws0,
         Lit(v), Ws0, Ch(")")>>,
       <<Ch("("), Ref(1), Lit(<<",", " ">> \o Und(v) \o <<")">>)>> >>,
    \* \(V\s*,                                ->  (_V,
    << <<Ch("("), Lit(v), Ws0, Ch(",")>>,
       <<Lit(<<"(">> \o Und(v) \o <<",">>)>> >>,
    \* V\s*\(([^)]*)\)\s*{                    ->  _V(\1) {
    << <<Lit(v), Ws0, Ch("("), Grp(1, << <<Cls({")"}, TRUE, 0, TRUE)>> >>, FALSE), Ch(")"),
         Ws0, Ch("{")>>,
       <<Lit(Und(v) \o <<"(">>), Ref(1), Lit(<<")", " ", "{">>)>> >>,
    \* ^(\s*)V\s*=>                           ->  \1_V =>
    << <<BOL, Grp(1, << <<Ws0>> >>, FALSE), Lit(v), Ws0, Lit(<<"=", ">">>)>>,
       <<Ref(1), Lit(Und(v) \o <<" ", "=", ">">>)>> >>,
    \* ^\s*V\s*=                              ->   _V =
    << <<BOL, Ws0, Lit(v), Ws0, Ch("=")>>,
       <<Lit(<<" ">> \o Und(v) \o <<" ", "=">>)>> >>,
    \* ^\s*V(\+\+|--);                        ->   _V\1;
    << <<BOL, Ws0, Lit(v), Grp(1, << <<Lit(<<"+", "+">>)>>, <<Lit(<<"-", "-">>)>> >>, FALSE),
         Ch(";")>>,
       <<Lit(<<" ">> \o Und(v)), Ref(1), Ch(";")>> >>
    >>

\* fix-all-unused-vars.py, "Patterns for variable declarations"
PatternsAll(v) == <<
    \* \b(const|let|var)\s+V\b                ->  \1 _V
    << <<WB, Decl, Ws1, Lit(v), WB>>,
       <<Ref(1), Lit(<<" ">> \o Und(v))>> >>,
    \* \(([^,)]*,\s*)?V([,\s)])               ->  (\1_V\2
    << <<Ch("("), Grp(1, << <<Cls({",", ")"}, TRUE, 0, TRUE), Ch(","), Ws0>> >>, TRUE),
         Lit(v), Grp(2, << <<Cls({",", ")"} \cup SpaceCh, FALSE, 1, FALSE)>> >>, FALSE)>>,
       <<Ch("("), Ref(1), Lit(Und(v)), Ref(2)>> >>,
    \* {\s*V\s*([,}])                         ->  { _V\1
    << <<Ch("{"), Ws0, Lit(v), Ws0, Grp(1, << <<Cls({",", "}"}, FALSE, 1, FALSE)>> >>, FALSE)>>,
       <<Lit(<<"{", " ">> \o Und(v)), Ref(1)>> >>
    >>

\* backend/fix-unused-vars.py, "Common patterns for variable declarations"
PatternsSingle(v) == <<
    \* \b(const|let|var)\s+V\b                ->  \1 _V
    << <<WB, Decl, Ws1, Lit(v), WB>>,
       <<Ref(1), Lit(<<" ">> \o Und(v))>> >>,
    \* \(V\b                                  ->  (_V
    << <<Ch("("), Lit(v), WB>>,
       <<Lit(<<"(">> \o Und(v))>> >>,
    \* ,\s*V\b                                ->  , _V
    << <<Ch(","), Ws0, Lit(v), WB>>,
       <<Lit(<<",", " ">> \o Und(v))>> >>,
    \* {\s*V\b                                ->  { _V
    << <<Ch("{"), Ws0, Lit(v), WB>>,
       <<Lit(<<"{", " ">> \o Und(v))>> >>,
    \* ,\s*V\s*}                              ->  , _V }
    << <<Ch(","), Ws0, Lit(v), Ws0, Ch("}")>>,
       <<Lit(<<",", " ">> \o Und(v) \o <<" ", "}">>)>> >>,
    \* \(V\s*\)                               ->  (_V)
    << <<Ch("("), Lit(v), Ws0, Ch(")")>>,
       <<Lit(<<"(">> \o Und(v) \o <<")">>)>> >>
    >>

Patterns(sc, v) ==
    CASE sc = "from_file" -> PatternsFromFile(v)
      [] sc = "all" -> PatternsAll(v)
      [] sc = "single" -> PatternsSingle(v)

\* for pattern, replacement in patterns: new_line = re.sub(...); if new_line != line:
\* the first rule that changes the line decides; the line itself when none does
RECURSIVE FirstRule(_, _, _)
FirstRule(rules, r, line) ==
    IF r > Len(rules) THEN line
    ELSE LET new_line == ReSub(rules[r][1], rules[r][2], line)
         IN IF new_line # line THEN new_line ELSE FirstRule(rules, r + 1, line)

\* for pattern, replacement in patterns: line = re.sub(pattern, replacement, line)
RECURSIVE EveryRule(_, _, _)
EveryRule(rules, r, line) ==
    IF r > Len(rules) THEN line
    ELSE EveryRule(rules, r + 1, ReSub(rules[r][1], rules[r][2], line))

\* the loop over the rule table, as each script writes it
ApplyRules(sc, v, line) ==
    IF sc = "single" THEN EveryRule(Patterns(sc, v), 1, line)
    ELSE FirstRule(Patterns(sc, v), 1, line)

\* "Skip if already has underscore"
AlreadyPrefixed(sc, v, line) ==
    IF sc = "from_file" THEN Contains(Und(v), line) ELSE StartsWith(v, <<"_">>)

\* a range check that lets line 0 through
OutOfRangeFromZero(line_num, lines) == line_num < 0 \/ line_num > Len(lines)

\* if line_num < 1 or line_num > len(lines)
OutOfRange(line_num, lines) == line_num < 1 \/ line_num > Len(lines)

\* fix_unused_var(file_path, line_num, var_name) on a file that holds text:
\* [ok, msg, content], content being the file's contents after the call.
\* "except Exception" turns a failing open() (present = FALSE) or a failing
\* lines[line_idx] into a failure that writes nothing.
FixUnusedVar(sc, present, text, line_num, v) ==
    IF ~present THEN [ok |-> FALSE, msg |-> "exception", content |-> text]
    ELSE LET lines == ReadLines(text)
             line_idx == line_num - 1
             line == PyItem(lines, line_idx)
             new_line == ApplyRules(sc, v, line)
         IN IF OutOfRange(line_num, lines)
            THEN [ok |-> FALSE, msg |-> "out of range", content |-> text]
            ELSE IF IndexError(lines, line_idx)
            THEN [ok |-> FALSE, msg |-> "exception", content |-> text]
            ELSE IF AlreadyPrefixed(sc, v, line)
            THEN [ok |-> TRUE, msg |-> "Already prefixed", content |-> text]
            ELSE IF new_line # line
            THEN [ok |-> TRUE, msg |-> "Fixed",
                  content |-> WriteLines(PySetItem(lines, line_idx, new_line))]
            ELSE [ok |-> FALSE, msg |-> "No pattern matched", content |-> text]

----------------------------------------------------------------------------
(* The warning parser: parse_eslint_file (fix-from-file.py) and            *)
(* parse_eslint_output (fix-all-unused-vars.py).                           *)

\* 'C:\\'
HeaderPrefix == <<"C", ":", "\\">>
\* 'no-unused-vars'
RuleName == <<"n","o","-","u","n","u","s","e","d","-","v","a","r","s">>
KwError == <<"e","r","r","o","r">>

\* \s*(\d+):\d+\s+error\s+'([^']+)'
WarningRe == <<Ws0, Grp(1, << <<Num1>> >>, FALSE), Ch(":"), Num1, Ws1, Lit(KwError), Ws1,
               Ch("'"), Grp(2, << <<Cls({"'"}, TRUE, 1, TRUE)>> >>, FALSE), Ch("'")>>

\* current_file = None; None and '' are both false in "and current_file"
None == <<>>
Truthy(s) == Len(s) > 0

\* match.group(n)
Group(m, s, n) == SubSeq(s, m.caps[n][1], m.caps[n][2] - 1)

\* "for line in f" keeps each line's newline; output.split('\n') drops them
InputLines(sc, text) == IF sc = "from_file" THEN ReadLines(text) ELSE SplitLines(text)

\* the parser's loop without "and current_file"
ParseOneAnyFile(cur, errs, line) ==
    IF StartsWith(line, HeaderPrefix)
    THEN [current_file |-> Strip(line), errors |-> errs]
    ELSE IF Contains(RuleName, line) /\ ReMatch(WarningRe, line).ok
    THEN [current_file |-> cur,
          errors |-> Append(errs, [file |-> cur,
                                   line |-> ToInt(Group(ReMatch(WarningRe, line), line, 1)),
                                   var |-> Group(ReMatch(WarningRe, line), line, 2)])]
    ELSE [current_file |-> cur, errors |-> errs]

\* One turn of the parser's loop on line: [current_file, errors] after it.
ParseOne(cur, errs, line) ==
    IF StartsWith(line, HeaderPrefix)
    THEN [current_file |-> Strip(line), errors |-> errs]
    ELSE IF Contains(RuleName, line) /\ Truthy(cur)
    THEN LET match == ReMatch(WarningRe, line)
         IN IF match.ok
            THEN [current_file |-> cur,
                  errors |-> Append(errs, [file |-> cur,
                                           line |-> ToInt(Group(match, line, 1)),
                                           var |-> Group(match, line, 2)])]
            ELSE [current_file |-> cur, errors |-> errs]
    ELSE [current_file |-> cur, errors |-> errs]

----------------------------------------------------------------------------
(* main of fix-from-file.py and of fix-all-unused-vars.py: the tallies     *)
(* after one warning whose rewrite gave r.                                 *)

\* tallies that leave an "Already prefixed" result uncounted
TallyNoSkip(sc, r, t) ==
    IF r.ok
    THEN IF sc = "from_file" /\ r.msg = "Already prefixed"
         THEN t
         ELSE [t EXCEPT !.fixed = @ + 1]
    ELSE [t EXCEPT !.failed = @ + 1]

Tally(sc, r, t) ==
    IF r.ok
    THEN IF sc = "from_file" /\ r.msg = "Already prefixed"
         THEN [t EXCEPT !.skipped = @ + 1]
         ELSE [t EXCEPT !.fixed = @ + 1]
    ELSE [t EXCEPT !.failed = @ + 1]

----------------------------------------------------------------------------
(* Inputs.                                                                 *)

\* the most direct calls of the rewriter in one behaviour
MaxCalls == 2
\* the most lines of lint output
MaxInputLines == 3

Range(f) == {f[i] : i \in DOMAIN f}

\* the path of the one source file that exists; open() of any other path raises
TargetPath == <<"C", ":", "\\", "a", ".", "j", "s">>

VarX == <<"x">>
VarUX == <<"_", "x">>
VarGet == <<"g", "e", "t">>
\* the identifiers the rewriter is called with
Idents == {VarX, VarUX, VarGet}

LineY == <<"y", "\n">>

\* target lines of the source file, one or more for each rule
FixLines == <<
    <<"c","o","n","s","t"," ","x"," ","="," ","1",";","\n">>,   \* const x = 1;\n
    <<"l","e","t"," ","x",";","\n">>,   \* let x;\n
    <<"i","m","p","o","r","t"," ","x"," ","f","r","o","m"," ","m","\n">>,   \* import x from m\n
    <<"i","m","p","o","r","t"," ","{","x","}"," ","f","r","o","m"," ","m","\n">>,   \* import {x} from m\n
    <<"{"," ","x",","," ","y"," ","}","\n">>,   \* { x, y }\n
    <<"{"," ","y",","," ","x"," ","}","\n">>,   \* { y, x }\n
    <<"{"," ","y",","," ","x",","," ","z"," ","}","\n">>,   \* { y, x, z }\n
    <<"x",":"," ","1",",","\n">>,   \* x: 1,\n
    <<"x",":","\n">>,   \* x:\n
    <<"f","u","n","c","t","i","o","n"," ","x","(",")"," ","{","\n">>,   \* function x() {\n
    <<"c","o","n","s","t"," ","{","x","}"," ","="," ","y",";","\n">>,   \* const {x} = y;\n
    <<" "," ","x",",","\n">>,   \*   x,\n
    <<"f","(","y",","," ","x",")","\n">>,   \* f(y, x)\n
    <<"f","(","x",","," ","y",")","\n">>,   \* f(x, y)\n
    <<"x","(","a",")"," ","{","\n">>,   \* x(a) {\n
    <<"f","o","r","g","e","t","(","a",")"," ","{","\n">>,   \* forget(a) {\n
    <<"x"," ","=",">"," ","y","\n">>,   \* x => y\n
    <<"x"," ","="," ","1",";","\n">>,   \* x = 1;\n
    <<"x","+","+",";","\n">>,   \* x++;\n
    <<"f","u","n","c","t","i","o","n"," ","h","e","l","p","e","r","(","x",")"," ","{","\n">>,   \* function helper(x) {\n
    <<"c","o","n","s","t"," ","x"," ","="," ","f","o","o","(","x",")",";","\n">>,   \* const x = foo(x);\n
    <<"f","o","o","(","x",","," ","x",")","\n">>,   \* foo(x, x)\n
    <<"c","o","n","s","t"," ","_","x"," ","="," ","1",";","\n">>,   \* const _x = 1;\n
    <<"l","e","t"," ","x">>   \* let x
    >>

\* source files: a target line alone, followed by a line, or after a line;
\* and the empty file
FixFiles == {<<>>} \cup UNION {{l, l \o LineY, LineY \o l} : l \in Range(FixLines)}

\* lines of lint output: headers, warnings of several shapes, other lines
LintLines == <<
    <<"C",":","\\","a",".","j","s">>,   \* C:\a.js
    <<"C",":","\\","b",".","j","s">>,   \* C:\b.js
    <<" "," ","1",":","7"," "," ","e","r","r","o","r"," "," ","'","x","'"," ","i","s"," ","u","n","u","s","e","d"," "," ","n","o","-","u","n","u","s","e","d","-","v","a","r","s">>,   \*   1:7  error  'x' is unused  no-unused-vars
    <<"0",":","1"," ","e","r","r","o","r"," ","'","x","'"," ","n","o","-","u","n","u","s","e","d","-","v","a","r","s">>,   \* 0:1 error 'x' no-unused-vars
    <<" ","1","2",":","3"," ","e","r","r","o","r"," ","'","_","x","'"," ","n","o","-","u","n","u","s","e","d","-","v","a","r","s">>,   \*  12:3 error '_x' no-unused-vars
    <<"f","o","o">>,   \* foo
    <<"1",":","1"," ","e","r","r","o","r"," ","x"," ","n","o","-","u","n","u","s","e","d","-","v","a","r","s">>,   \* 1:1 error x no-unused-vars
    <<"2",":","1"," ","e","r","r","o","r"," ","'","x","'"," ","n","o","-","u","n","d","e","f">>,   \* 2:1 error 'x' no-undef
    <<>>   \* 
    >>

\* lines of lint output for the batch drivers
MainLines == <<
    <<"C",":","\\","a",".","j","s">>,   \* C:\a.js
    <<"C",":","\\","b",".","j","s">>,   \* C:\b.js
    <<"1",":","7"," ","e","r","r","o","r"," ","'","x","'"," ","n","o","-","u","n","u","s","e","d","-","v","a","r","s">>,   \* 1:7 error 'x' no-unused-vars
    <<"2",":","1"," ","e","r","r","o","r"," ","'","x","'"," ","n","o","-","u","n","u","s","e","d","-","v","a","r","s">>,   \* 2:1 error 'x' no-unused-vars
    <<"1",":","1"," ","e","r","r","o","r"," ","'","_","x","'"," ","n","o","-","u","n","u","s","e","d","-","v","a","r","s">>,   \* 1:1 error '_x' no-unused-vars
    <<"0",":","1"," ","e","r","r","o","r"," ","'","x","'"," ","n","o","-","u","n","u","s","e","d","-","v","a","r","s">>   \* 0:1 error 'x' no-unused-vars
    >>

\* source files for the batch drivers
MainFiles == <<
    <<"c","o","n","s","t"," ","x"," ","="," ","f","o","o","(","x",")",";","\n","l","e","t"," ","_","x",";","\n">>,   \* const x = foo(x);\nlet _x;\n
    <<"y","\n">>   \* y\n
    >>

\* the texts of at most n lines drawn from cat, each line ended by "\n"
RECURSIVE Texts(_, _)
Texts(cat, n) ==
    IF n = 0 THEN {<<>>}
    ELSE LET shorter == Texts(cat, n - 1)
         IN shorter \cup {l \o <<"\n">> \o t : l \in Range(cat), t \in shorter}

NoCall == [file |-> <<>>, line |-> 0, var |-> <<>>, ok |-> FALSE, msg |-> "none",
           before |-> <<>>, again |-> FALSE]

\* the record of a call fix_unused_var(file, line, var) that gave r
CallRecord(file, line, var, r, before, again) ==
    [file |-> file, line |-> line, var |-> var, ok |-> r.ok, msg |-> r.msg,
     before |-> before, again |-> again]

\* the variables of script "whole", idle while another script runs
whole == <<content, pending, changes, turn>>
NoTurn == [kind |-> "none", name |-> <<>>, before |-> <<>>]
WholeIdle == content = <<>> /\ pending = {} /\ changes = <<>> /\ turn = NoTurn

----------------------------------------------------------------------------
(* The rewriter called directly: the command line of                       *)
(* backend/fix-unused-vars.py, or fix_unused_var of the other two scripts. *)

InitFix ==
    /\ script \in {"from_file", "all", "single"}
    /\ disk \in FixFiles
    /\ pc = "call"
    /\ output = <<>> /\ lineno = 0 /\ current_file = None /\ errors = <<>>
    /\ idx = 0 /\ fixed = 0 /\ failed = 0 /\ skipped = 0
    /\ passed = <<>> /\ ncalls = 0 /\ last = NoCall
    /\ WholeIdle

FixCall(line_num, var_name) ==
    /\ pc = "call"
    /\ ncalls < MaxCalls
    /\ LET r == FixUnusedVar(script, TRUE, disk, line_num, var_name)
       IN /\ disk' = r.content
          /\ last' = CallRecord(TargetPath, line_num, var_name, r, disk,
                                /\ last.msg = "Fixed"
                                /\ last.line = line_num
                                /\ last.var = var_name)
    /\ ncalls' = ncalls + 1
    /\ UNCHANGED <<script, output, lineno, current_file, errors, pc, idx,
                   fixed, failed, skipped, passed>>
    /\ UNCHANGED whole

NextFix ==
    \E line_num \in 0 .. Len(ReadLines(disk)) + 1, var_name \in Idents :
        FixCall(line_num, var_name)

SpecFix == InitFix /\ [][NextFix]_vars

----------------------------------------------------------------------------
(* The parser and the batch driver.                                        *)

InitBatch(texts, files) ==
    /\ script \in {"from_file", "all"}
    /\ disk \in files
    /\ output \in texts
    /\ pc = "parse"
    /\ lineno = 0 /\ current_file = None /\ errors = <<>>
    /\ idx = 0 /\ fixed = 0 /\ failed = 0 /\ skipped = 0
    /\ passed = <<>> /\ ncalls = 0 /\ last = NoCall
    /\ WholeIdle

\* for line in f / for line in output.split('\n')
ParseLine ==
    /\ pc = "parse"
    /\ lineno < Len(InputLines(script, output))
    /\ LET r == ParseOne(current_file, errors, InputLines(script, output)[lineno + 1])
       IN /\ current_file' = r.current_file
          /\ errors' = r.errors
    /\ lineno' = lineno + 1
    /\ UNCHANGED <<script, disk, output, pc, idx, fixed, failed, skipped, passed,
                   ncalls, last>>
    /\ UNCHANGED whole

\* return errors; main starts its tallies at zero
ParseReturn ==
    /\ pc = "parse"
    /\ lineno = Len(InputLines(script, output))
    /\ pc' = "loop"
    /\ idx' = 0 /\ fixed' = 0 /\ failed' = 0 /\ skipped' = 0
    /\ UNCHANGED <<script, disk, output, lineno, current_file, errors, passed,
                   ncalls, last>>
    /\ UNCHANGED whole

\* for error in errors: one turn
LoopStep ==
    /\ pc = "loop"
    /\ idx < Len(errors)
    /\ LET error == errors[idx + 1]
           r == FixUnusedVar(script, error.file = TargetPath, disk, error.line, error.var)
           t == Tally(script, r, [fixed |-> fixed, failed |-> failed, skipped |-> skipped])
       IN /\ disk' = r.content
          /\ fixed' = t.fixed /\ failed' = t.failed /\ skipped' = t.skipped
          /\ passed' = Append(passed, error)
          /\ last' = CallRecord(error.file, error.line, error.var, r, disk, FALSE)
    /\ idx' = idx + 1
    /\ UNCHANGED <<script, output, lineno, current_file, errors, pc, ncalls>>
    /\ UNCHANGED whole

\* the loop is over: the summary is printed
LoopEnd ==
    /\ pc = "loop"
    /\ idx = Len(errors)
    /\ pc' = "done"
    /\ UNCHANGED <<script, disk, output, lineno, current_file, errors, idx,
                   fixed, failed, skipped, passed, ncalls, last>>
    /\ UNCHANGED whole

InitParse == InitBatch(Texts(LintLines, MaxInputLines), {LineY})
NextParse == ParseLine \/ ParseReturn
SpecParse == InitParse /\ [][NextParse]_vars

InitMain == InitBatch(Texts(MainLines, MaxInputLines), Range(MainFiles))
NextMain == ParseLine \/ ParseReturn \/ LoopStep \/ LoopEnd
SpecMain == InitMain /\ [][NextMain]_vars

----------------------------------------------------------------------------
(* fix_unused_vars of src/fix-unused-vars.py: the whole text of a file is  *)
(* rewritten for every name of three hard-wired collections.               *)

\* unused_vars
UnusedVars == {
    <<"t","e","s","t","U","s","e","r">>,
    <<"t","e","s","t","P","a","s","s","w","o","r","d">>,
    <<"t","e","s","t","G","r","o","o","m">>,
    <<"t","e","s","t","B","r","e","e","d">>,
    <<"r","e","s","p","o","n","s","e">>,
    <<"r","e","g","i","s","t","e","r","R","e","s","p","o","n","s","e">>,
    <<"l","o","g","i","n","R","e","s","p","o","n","s","e">>,
    <<"t","o","k","e","n","B">>,
    <<"t","o","k","e","n","1">>,
    <<"t","o","k","e","n","2">>,
    <<"t","o","k","e","n","3">>,
    <<"r","e","s","u","l","t">>,
    <<"n","o","w">>,
    <<"n","e","w","T","o","k","e","n">>,
    <<"o","l","d","I","n","v","a","l","i","d","a","t","e","d","T","o","k","e","n">>,
    <<"c","s","r","f","T","o","k","e","n">>,
    <<"c","s","r","f","C","o","o","k","i","e">>,
    <<"e","x","e","c","u","t","e","D","a","t","a">>,
    <<"m","o","c","k","R","e","q">>,
    <<"m","o","c","k","R","e","s">>,
    <<"m","o","c","k","N","e","x","t">>,
    <<"r","a","t","e","L","i","m","i","t","e","r">>,
    <<"u","s","e","r","I","d">>,
    <<"h","o","r","s","e","I","d">>,
    <<"r","e","s">>,
    <<"n","e","x","t">>,
    <<"h","e","a","d","e","r","s">>,
    <<"c","h","e","c","k","s">>,
    <<"b","e","f","o","r","e">>,
    <<"a","f","t","e","r">>,
    <<"h","i","t","R","a","t","e","L","i","m","i","t">>,
    <<"e","x","p","e","c","t","e","d","K","e","y","P","a","t","t","e","r","n">>,
    <<"p","l","a","i","n","T","e","x","t","E","m","a","i","l">>,
    <<"h","t","m","l","E","m","a","i","l">>,
    <<"i","n","i","t","i","a","l","G","r","o","o","m","C","o","u","n","t">>,
    <<"t","o","t","a","l","R","e","q","u","e","s","t","s">>,
    <<"o","p","t","i","o","n","s">>,
    <<"m","o","c","k","C","s","r","f","P","r","o","t","e","c","t","i","o","n">>,
    <<"e","x","p">>,
    <<"i","a","t">> }

\* unused_imports
UnusedImports == {
    <<"j","e","s","t">>,
    <<"e","x","p","e","c","t">>,
    <<"a","f","t","e","r","E","a","c","h">>,
    <<"r","e","a","d","F","i","l","e","S","y","n","c">>,
    <<"p","r","i","s","m","a">>,
    <<"r","e","q","u","e","s","t">>,
    <<"f","i","n","d","O","w","n","e","d","R","e","s","o","u","r","c","e">>,
    <<"t","r","a","c","k","R","e","s","o","u","r","c","e">>,
    <<"u","n","t","r","a","c","k","R","e","s","o","u","r","c","e">>,
    <<"Y","A","M","L">>,
    <<"R","e","s","p","o","n","s","e","C","a","c","h","e","S","e","r","v","i","c","e">>,
    <<"r","e","q","u","e","s","t","T","i","m","e","o","u","t","M","i","d","d","l","e","w","a","r","e">>,
    <<"m","e","m","o","r","y","M","o","n","i","t","o","r","i","n","g","M","i","d","d","l","e","w","a","r","e">>,
    <<"d","a","t","a","b","a","s","e","C","o","n","n","e","c","t","i","o","n","M","i","d","d","l","e","w","a","r","e">>,
    <<"c","r","e","a","t","e","R","e","s","o","u","r","c","e","M","a","n","a","g","e","m","e","n","t","M","i","d","d","l","e","w","a","r","e">>,
    <<"r","a","t","e","L","i","m","i","t">>,
    <<"l","o","g","g","e","r">>,
    <<"j","w","t">>,
    <<"j","o","i","n">>,
    <<"i","n","v","a","l","i","d","a","t","e","T","o","k","e","n","F","a","m","i","l","y">>,
    <<"g","e","n","e","r","a","t","e","T","o","k","e","n">>,
    <<"g","e","n","e","r","a","t","e","R","e","f","r","e","s","h","T","o","k","e","n">>,
    <<"g","e","n","e","r","a","t","e","D","o","c","u","m","e","n","t","a","t","i","o","n">>,
    <<"G","a","u","g","e">>,
    <<"f","s">>,
    <<"e","x","t","r","a","c","t","C","o","o","k","i","e","V","a","l","u","e">>,
    <<"g","e","t","C","s","r","f","T","o","k","e","n">>,
    <<"s","l","e","e","p">>,
    <<"c","r","e","a","t","e","M","o","c","k","U","s","e","r">>,
    <<"c","r","e","a","t","e","M","o","c","k","H","o","r","s","e">>,
    <<"c","r","e","a","t","e","M","o","c","k","G","r","o","o","m">>,
    <<"c","r","e","a","t","e","M","a","l","f","o","r","m","e","d","T","o","k","e","n">>,
    <<"c","r","e","a","t","e","L","o","g","i","n","D","a","t","a">>,
    <<"c","l","o","s","e","R","e","d","i","s">>,
    <<"a","u","t","h","R","a","t","e","L","i","m","i","t","e","r">>,
    <<"a","u","t","h","H","e","a","d","e","r">>,
    <<"a","p","p","l","y","R","a","r","e","T","r","a","i","t","B","o","o","s","t","e","r","E","f","f","e","c","t","s">>,
    <<"A","p","i","R","e","s","p","o","n","s","e">>,
    <<"a","n","a","l","y","z","e","T","r","a","i","t","T","r","e","n","d","s">>,
    <<"i","d","e","n","t","i","f","y","T","r","a","i","t","P","a","t","t","e","r","n","s">>,
    <<"h","a","s","U","l","t","r","a","R","a","r","e","A","b","i","l","i","t","y">>,
    <<"g","e","t","M","e","m","o","r","y","R","e","p","o","r","t">>,
    <<"g","e","t","E","n","v","i","r","o","n","m","e","n","t","a","l","H","i","s","t","o","r","y">>,
    <<"g","e","n","e","r","a","t","e","T","r","e","n","d","P","r","e","d","i","c","t","i","o","n","s">>,
    <<"d","i","s","c","o","v","e","r","T","r","a","i","t","s">>,
    <<"E","P","I","G","E","N","E","T","I","C","_","F","L","A","G","_","D","E","F","I","N","I","T","I","O","N","S">>,
    <<"p","a","t","h">> }

\* for var_name in ['options']
ParamName == <<"o","p","t","i","o","n","s">>

\* \b(const|let|var)\s+V\s*=
VarPattern(v) == <<WB, Decl, Ws1, Lit(v), Ws0, Ch("=")>>
\* \1 _V =
VarReplacement(v) == <<Ref(1), Lit(<<" ">> \o Und(v) \o <<" ", "=">>)>>

\* [^}]*  and  [^)]*
NotCloseBrace == Cls({"}"}, TRUE, 0, TRUE)
NotCloseParen == Cls({")"}, TRUE, 0, TRUE)

\* \{\s*([^}]*\b)V(\b[^}]*)\}
ImportPattern(v) ==
    <<Ch("{"), Ws0, Grp(1, << <<NotCloseBrace, WB>> >>, FALSE), Lit(v),
      Grp(2, << <<WB, NotCloseBrace>> >>, FALSE), Ch("}")>>

\* \(([^)]*)\bV\b([^)]*)\)
ParamPattern(v) ==
    <<Ch("("), Grp(1, << <<NotCloseParen>> >>, FALSE), WB, Lit(v), WB,
      Grp(2, << <<NotCloseParen>> >>, FALSE), Ch(")")>>

\* list(re.finditer(pattern, s)): the non-overlapping matches, left to right
RECURSIVE FindIterFrom(_, _, _)
FindIterFrom(pat, s, from) ==
    LET m == SearchFrom(pat, s, from)
    IN IF ~m.ok THEN <<>>
       ELSE <<m>> \o FindIterFrom(pat, s, IF m.end = m.start THEN m.end + 1 ELSE m.end)

FindIter(pat, s) == FindIterFrom(pat, s, 1)

\* s[:n] and s[n:] for an offset n >= 0 (a slice past the end is cut short)
PyPrefix(s, n) == SubSeq(s, 1, IF n < Len(s) THEN n ELSE Len(s))
PySuffix(s, n) == SubSeq(s, (IF n < Len(s) THEN n ELSE Len(s)) + 1, Len(s))

\* match.start() and match.end(): offsets from 0
MatchStart(match) == match.start - 1
MatchEnd(match) == match.end - 1

\* s.replace(c, '')
RECURSIVE Remove(_, _)
Remove(c, s) ==
    IF Len(s) = 0 THEN <<>>
    ELSE (IF Head(s) = c THEN <<>> ELSE <<Head(s)>>) \o Remove(c, Tail(s))

\* new_import for a match found in the text s
NewImport(v, match, s) ==
    LET before == Strip(Group(match, s, 1))
        after == Strip(Group(match, s, 2))
    IN IF Truthy(before) \/ Truthy(Strip(Remove(",", after)))
       THEN <<"{">> \o before \o Und(v) \o after \o <<"}">>
       ELSE <<"{">> \o Und(v) \o <<"}">>

\* new_params for a match found in the text s
NewParams(v, match, s) ==
    <<"(">> \o Group(match, s, 1) \o Und(v) \o Group(match, s, 2) \o <<")">>

\* the text a match of the loop of that kind is replaced with
Replacement(kind, v, match, s) ==
    IF kind = "Import" THEN NewImport(v, match, s) ELSE NewParams(v, match, s)

LoopPattern(kind, v) == IF kind = "Import" THEN ImportPattern(v) ELSE ParamPattern(v)

\* for match in matches: content = content[:match.start()] + new + content[match.end():]
\* where matches were found in the text found_in, before the loop began
RECURSIVE SpliceLoop(_, _, _, _, _)
SpliceLoop(kind, v, matches, found_in, text) ==
    IF Len(matches) = 0 THEN text
    ELSE LET match == Head(matches)
         IN SpliceLoop(kind, v, Tail(matches), found_in,
                       PyPrefix(text, MatchStart(match))
                       \o Replacement(kind, v, match, found_in)
                       \o PySuffix(text, MatchEnd(match)))

\* one turn of "for var_name in unused_imports" or of "for var_name in ['options']"
TurnContent(kind, v, text) ==
    SpliceLoop(kind, v, FindIter(LoopPattern(kind, v), text), text, text)

\* changes.append(...) once for every match
RECURSIVE Notes(_, _, _)
Notes(kind, v, n) == IF n = 0 THEN <<>> ELSE <<[kind |-> kind, name |-> v]>> \o Notes(kind, v, n - 1)

TurnChanges(kind, v, text) == Notes(kind, v, Len(FindIter(LoopPattern(kind, v), text)))

\* at most this many pieces make a file
MaxPieces == 2

\* the pieces the files are made of:
\*   {jwt}\n
\*   { fs }\n
\*   { jwt}
\*   {jwt, fs}\n
\*   import { jwt } from 'a';\n
\*   f(options)\n
\*   g(a, options)
\*   const res = 1;\n
\*   let now=2;\n
\*   y\n
WholePieces == <<
    <<"{","j","w","t","}","\n">>,
    <<"{"," ","f","s"," ","}","\n">>,
    <<"{"," ","j","w","t","}">>,
    <<"{","j","w","t",","," ","f","s","}","\n">>,
    <<"i","m","p","o","r","t"," ","{"," ","j","w","t"," ","}"," ","f","r","o","m"," ","'","a","'",";","\n">>,
    <<"f","(","o","p","t","i","o","n","s",")","\n">>,
    <<"g","(","a",","," ","o","p","t","i","o","n","s",")">>,
    <<"c","o","n","s","t"," ","r","e","s"," ","="," ","1",";","\n">>,
    <<"l","e","t"," ","n","o","w","=","2",";","\n">>,
    <<"y","\n">> >>

RECURSIVE Joined(_, _)
Joined(cat, n) ==
    IF n = 0 THEN {<<>>}
    ELSE LET shorter == Joined(cat, n - 1)
         IN shorter \cup {p \o t : p \in Range(cat), t \in shorter}

WholeFiles == Joined(WholePieces, MaxPieces)

\* with open(file_path, 'r') ...: content = f.read(); changes = []
InitWhole ==
    /\ script = "whole"
    /\ disk \in WholeFiles
    /\ content = disk
    /\ changes = <<>>
    /\ pending = UnusedVars
    /\ turn = NoTurn
    /\ pc = "vars"
    /\ output = <<>> /\ lineno = 0 /\ current_file = None /\ errors = <<>>
    /\ idx = 0 /\ fixed = 0 /\ failed = 0 /\ skipped = 0
    /\ passed = <<>> /\ ncalls = 0 /\ last = NoCall

batch == <<script, output, lineno, current_file, errors, idx,
           fixed, failed, skipped, passed, ncalls, last>>

\* The iteration order of a Python set is not fixed: any pending name may be
\* the next.  A name whose pattern finds nothing at its turn changes nothing;
\* such turns are taken after the turns of the names whose pattern finds
\* something.

\* for var_name in unused_vars: one turn where re.search finds the pattern
VarTurn(var_name) ==
    /\ pc = "vars"
    /\ var_name \in pending
    /\ SearchFrom(VarPattern(var_name), content, 1).ok
    /\ content' = ReSub(VarPattern(var_name), VarReplacement(var_name), content)
    /\ changes' = Append(changes, [kind |-> "Variable", name |-> var_name])
    /\ pending' = pending \ {var_name}
    /\ turn' = [kind |-> "Variable", name |-> var_name, before |-> content]
    /\ UNCHANGED <<disk, pc>>
    /\ UNCHANGED batch

\* the remaining names find nothing: the loop over unused_imports begins
VarsDone ==
    /\ pc = "vars"
    /\ \A var_name \in pending : ~SearchFrom(VarPattern(var_name), content, 1).ok
    /\ pc' = "imports"
    /\ pending' = UnusedImports
    /\ UNCHANGED <<disk, content, changes, turn>>
    /\ UNCHANGED batch

\* for var_name in unused_imports: one turn where finditer finds the pattern
ImportTurn(var_name) ==
    /\ pc = "imports"
    /\ var_name \in pending
    /\ SearchFrom(ImportPattern(var_name), content, 1).ok
    /\ content' = TurnContent("Import", var_name, content)
    /\ changes' = changes \o TurnChanges("Import", var_name, content)
    /\ pending' = pending \ {var_name}
    /\ turn' = [kind |-> "Import", name |-> var_name, before |-> content]
    /\ UNCHANGED <<disk, pc>>
    /\ UNCHANGED batch

\* the remaining names find nothing: the loop over ['options'] begins
ImportsDone ==
    /\ pc = "imports"
    /\ \A var_name \in pending : ~SearchFrom(ImportPattern(var_name), content, 1).ok
    /\ pc' = "params"
    /\ pending' = {ParamName}
    /\ UNCHANGED <<disk, content, changes, turn>>
    /\ UNCHANGED batch

\* for var_name in ['options']: its one turn
ParamTurn ==
    /\ pc = "params"
    /\ content' = TurnContent("Parameter", ParamName, content)
    /\ changes' = changes \o TurnChanges("Parameter", ParamName, content)
    /\ pending' = {}
    /\ turn' = [kind |-> "Parameter", name |-> ParamName, before |-> content]
    /\ pc' = "write"
    /\ UNCHANGED disk
    /\ UNCHANGED batch

\* if content != original_content: write the file, return the changes;
\* otherwise return an empty list
WriteAndReturn ==
    /\ pc = "write"
    /\ disk' = IF content # disk THEN content ELSE disk
    /\ changes' = IF content # disk THEN changes ELSE <<>>
    /\ pc' = "returned"
    /\ UNCHANGED <<content, pending, turn>>
    /\ UNCHANGED batch

NextWhole ==
    \/ \E var_name \in UnusedVars : VarTurn(var_name)
    \/ VarsDone
    \/ \E var_name \in UnusedImports : ImportTurn(var_name)
    \/ ImportsDone
    \/ ParamTurn
    \/ WriteAndReturn

SpecWhole == InitWhole /\ [][NextWhole]_vars

----------------------------------------------------------------------------
(* The scripts together.                                                   *)

Init == InitFix \/ InitParse \/ InitMain \/ InitWhole
Next == NextFix \/ NextMain \/ NextWhole
Spec == Init /\ [][Next]_vars

----------------------------------------------------------------------------
(* Properties.                                                             *)

Called == last.msg # "none"
OldLines == ReadLines(last.before)
NewLines == ReadLines(disk)
InRange == last.line \in 1 .. Len(OldLines)
EndsWithNewline(s) == Len(s) > 0 /\ s[Len(s)] = "\n"

\* the text that stands in the file after the call where line last.line stood
RewrittenLine ==
    LET before == WriteLines(SubSeq(OldLines, 1, last.line - 1))
        after == WriteLines(SubSeq(OldLines, last.line + 1, Len(OldLines)))
    IN SubSeq(disk, Len(before) + 1, Len(disk) - Len(after))

\* C1: a call of the rewriter with an identifier that begins with an
\* underscore leaves the file's contents as they were (no second underscore is
\* added), and its success is the no-op.  Stated for the lines of the file:
\* for a line number outside it every script reports the out-of-range
\* failure (C3).
C1_UnderscoreIdentIsNoOp ==
    (Called /\ StartsWith(last.var, <<"_">>) /\ InRange)
        => (disk = last.before /\ (last.ok => last.msg = "Already prefixed"))

\* C2: when a call has rewritten a line, the call that follows it with the
\* same line number and identifier reports success as a no-op and leaves the
\* file unchanged, in each script.
C2_SecondCallIsNoOp ==
    last.again => (last.ok /\ last.msg = "Already prefixed" /\ disk = last.before)

\* C3: a call that fails because the line number is outside [1, total_lines]
\* or because no rule changes the line has written nothing, the file being
\* what it was; and every line number outside [1, total_lines] gives the
\* out-of-range failure, whatever the identifier.
C3_FailureLeavesFile ==
    /\ (last.msg \in {"out of range", "No pattern matched"})
          => (~last.ok /\ disk = last.before)
    /\ (Called /\ ~InRange)
          => (~last.ok /\ last.msg = "out of range" /\ disk = last.before)

\* a call with a line number past the end of a file that a first call rewrote
C3_Witness ==
    /\ ncalls = 2
    /\ last.msg = "out of range"
    /\ last.line = Len(OldLines) + 1
    /\ Contains(VarUX, last.before)

\* C4: in every script the line written back is the line with one rule
\* applied, the first rule of the script's table that changes it, and no
\* later rule.
C4_OnlyFirstRuleApplied ==
    last.msg = "Fixed"
        => disk = WriteLines(PySetItem(OldLines, last.line - 1,
                      FirstRule(Patterns(script, last.var), 1, OldLines[last.line])))

\* C5: after a rewrite of line n the file has as many lines as before, every
\* other line is what it was, and line n ends with a newline if and only if
\* it did before.
C5_OnlyLineNChanges ==
    last.msg = "Fixed"
        => /\ Len(NewLines) = Len(OldLines)
           /\ \A j \in 1 .. Len(OldLines) : j # last.line => NewLines[j] = OldLines[j]
           /\ EndsWithNewline(NewLines[last.line]) <=> EndsWithNewline(OldLines[last.line])

\* function helper(x) {
FunctionHelperX ==
    KwFunction \o <<" ", "h", "e", "l", "p", "e", "r", "(", "x", ")", " ", "{", "\n">>
\* function helper(_x) {
FunctionHelperUX ==
    KwFunction \o <<" ", "h", "e", "l", "p", "e", "r", "(", "_", "x", ")", " ", "{", "\n">>

\* C8: on the line "function helper(x) {" with the identifier x, the rewriter
\* of fix-from-file.py and of fix-all-unused-vars.py succeeds and the line
\* becomes "function helper(_x) {".
C8_SoleParameterPrefixed ==
    (/\ Called /\ InRange
     /\ script \in {"from_file", "all"}
     /\ last.var = VarX
     /\ OldLines[last.line] = FunctionHelperX)
        => (last.ok /\ RewrittenLine = FunctionHelperUX)

\* the characters of s that are neither whitespace nor an underscore
RECURSIVE Solid(_)
Solid(s) ==
    IF Len(s) = 0 THEN <<>>
    ELSE IF Head(s) \in SpaceCh \cup {"_"} THEN Solid(Tail(s))
    ELSE <<Head(s)>> \o Solid(Tail(s))

\* C10: in fix-from-file.py a rewrite puts the underscore in front of a whole
\* token only: in the rewritten line no "_<identifier>" stands inside a longer
\* identifier, and but for underscores and whitespace the line is what it
\* was.  Stated for identifiers that do not begin with an underscore (C1
\* covers those that do); the line held no "_<identifier>" before the rewrite.
C10_UnderscoreBeforeWholeToken ==
    (script = "from_file" /\ last.msg = "Fixed" /\ ~StartsWith(last.var, <<"_">>))
        => LET new == RewrittenLine
               n == Len(last.var)
           IN /\ \A p \in 1 .. Len(new) - n :
                    SubSeq(new, p, p + n) = Und(last.var)
                        => (~IsWordAt(new, p - 1) /\ ~IsWordAt(new, p + n + 1))
              /\ Solid(new) = Solid(OldLines[last.line])

\* the lines the parser has read so far
Consumed == SubSeq(InputLines(script, output), 1, lineno)
IsHeader(line) == StartsWith(line, HeaderPrefix)
WellShaped(line) ==
    ~IsHeader(line) /\ Contains(RuleName, line) /\ ReMatch(WarningRe, line).ok
\* the well-shaped warning lines among the first m that follow a header
Kept(m) ==
    {i \in 1 .. m : WellShaped(Consumed[i]) /\ \E j \in 1 .. i - 1 : IsHeader(Consumed[j])}
\* the latest header line before line i
HeaderOf(i) ==
    CHOOSE j \in 1 .. i - 1 :
        IsHeader(Consumed[j]) /\ \A h \in j + 1 .. i - 1 : ~IsHeader(Consumed[h])

\* C6: the parser's list holds, in their order, exactly the well-shaped
\* no-unused-vars warning lines read so far that follow a header line, each
\* with the file of the latest header before it; a warning before any header,
\* and a line of neither shape, add nothing.
C6_ParserOutput ==
    pc \in {"parse", "loop"}
        => /\ Len(errors) = Cardinality(Kept(lineno))
           /\ \A i \in Kept(lineno) :
                 LET e == errors[Cardinality(Kept(i))]
                     match == ReMatch(WarningRe, Consumed[i])
                 IN /\ e.file = Strip(Consumed[HeaderOf(i)])
                    /\ e.line = ToInt(Group(match, Consumed[i], 1))
                    /\ e.var = Group(match, Consumed[i], 2)

\* a warning before any header is dropped, the one after the header is kept
C6_Witness ==
    /\ pc = "loop"
    /\ lineno = 3
    /\ WellShaped(Consumed[1]) /\ IsHeader(Consumed[2]) /\ WellShaped(Consumed[3])
    /\ Len(errors) = 1

\* C9: every warning the parser yields has a line of at least 1 and an
\* identifier that is not empty.
C9_WarningFieldsPositive ==
    \A k \in 1 .. Len(errors) : errors[k].line >= 1 /\ Len(errors[k].var) > 0

\* what holds of the batch driver's loop after idx warnings
LoopInvariant ==
    pc \in {"loop", "done"}
        => /\ passed = SubSeq(errors, 1, idx)
           /\ fixed + skipped + failed = idx
           /\ script = "all" => skipped = 0
           /\ pc = "done" => idx = Len(errors)
           /\ idx > 0 => /\ last.file = errors[idx].file
                         /\ last.line = errors[idx].line
                         /\ last.var = errors[idx].var

\* C7: the batch driver hands every warning to the rewriter once, in input
\* order, and the tallies add up to the number of warnings handled (to the
\* number of warnings when the loop is over); no failure stops the loop: while
\* warnings are left, the step the driver takes handles the next one.
C7_EveryWarningOnce ==
    /\ []LoopInvariant
    /\ [][(pc = "loop" /\ idx < Len(errors))
              => (pc' = "loop" /\ idx' = idx + 1 /\ passed' = Append(passed, errors[idx + 1]))]_vars

\* a failure (line 0) is followed by a warning that is skipped or fixed
C7_Witness ==
    /\ pc = "done"
    /\ Len(errors) = 2
    /\ errors[1].line = 0
    /\ failed = 1
    /\ skipped + fixed = 1

\* a turn of the loop over unused_imports or over ['options'] has been taken
SpliceTurn == turn.kind \in {"Import", "Parameter"}
\* the groups the turn's finditer found in the content it started from
TurnMatches == FindIter(LoopPattern(turn.kind, turn.name), turn.before)

\* s from position from on, every match replaced where it stands in s
RECURSIVE ReplacedInPlace(_, _, _, _, _)
ReplacedInPlace(kind, v, matches, s, from) ==
    IF Len(matches) = 0 THEN SubSeq(s, from, Len(s))
    ELSE LET match == Head(matches)
         IN SubSeq(s, from, match.start - 1)
            \o Replacement(kind, v, match, s)
            \o ReplacedInPlace(kind, v, Tail(matches), s, match.end)

\* C11: when the content holds two or more brace groups (parenthesised groups
\* for options) that match the same name, the content after the turn is the
\* content before it with every matched group replaced where it stands: the
\* characters outside the groups are unchanged, none lost and none doubled.
C11_SplicedWhereMatched ==
    (SpliceTurn /\ Len(TurnMatches) >= 2)
        => content = ReplacedInPlace(turn.kind, turn.name, TurnMatches, turn.before, 1)


====
